---------------------------- MODULE Spec2Model ----------------------------
(***************************************************************************)
(* Traceroute-map backend: the hop parsers, the probe fallback chain, the  *)
(* traceRoute pipeline and the submarine-cable classification.             *)
(*                                                                         *)
(* Numbers.  Round-trip times and loss percentages are JavaScript doubles; *)
(* they are kept here as fixed-point integers: round-trip times in         *)
(* millionths of a millisecond (1 ms = 1000000), so that the rounding to   *)
(* three decimals in calculateTotalTime has something to round, and loss   *)
(* percentages in thousandths (100 % = 100000).  Distances are kept in     *)
(* half kilometres (1 km = 2), so that Math.round has something to round.  *)
(***************************************************************************)
EXTENDS Integers, Sequences, FiniteSets, TLC

VARIABLES
    fmt,        \* parser run: which tool format the text is in
    text,       \* parser run: the tool's stdout so far, a sequence of lines
    parsed,     \* parser run: the hop list the parser returned
    ppc,        \* parser run: "head" | "silent" | "dest" | "parsed"; "idle" elsewhere
    platform,   \* os.platform() of the TracerouteService
    tpc,        \* traceRoute: the await it is at
    attempts,   \* traceRoute: the commands run so far, with their outcome
    probeHops,  \* traceRoute: what runTraceroute returned
    enrichedHops, \* traceRoute: enrichedHops, as the later stages leave them
    cables,     \* CableService.cables
    cableInfo,  \* traceRoute: what analyzeCableUsage returned
    result,     \* traceRoute: the object it resolved to
    isLoading,  \* CableService.isLoading
    loadAttempted, \* CableService.loadAttempted
    lastFetch,  \* CableService.lastFetch: "null", or "set" to a recent time
    lpc,        \* per caller of the CableService: the await it is at
    seen        \* per trace: the cable data analyzeCableUsage went on with

pvars == <<fmt, text, parsed, ppc>>
tvars == <<platform, tpc, attempts, probeHops, enrichedHops, cables, cableInfo, result>>

lvars == <<isLoading, loadAttempted, lastFetch, lpc, seen>>

vars == <<fmt, text, parsed, ppc,
          platform, tpc, attempts, probeHops, enrichedHops, cables, cableInfo, result,
          isLoading, loadAttempted, lastFetch, lpc, seen>>

---------------------------------------------------------------------------
(* Values *)

\* JavaScript null for a numeric field (rtt).
null == -1

\* A hop address.  kind "quad" is a literal dotted quad, oct its four
\* numbers; "none" is JavaScript null; "host", "hostquad" and "unk" are the
\* non-numeric tokens an mtr report can carry in its address column (a host
\* name, a host name that contains a dotted quad, and "???").
NoIp == [kind |-> "none", oct |-> <<0, 0, 0, 0>>]
Quad(a, b, c, d) == [kind |-> "quad", oct |-> <<a, b, c, d>>]
PrivIp == Quad(10, 0, 0, 1)
PubIp == Quad(8, 8, 8, 8)
DstIp == Quad(93, 184, 216, 34)
HostName == [kind |-> "host", oct |-> <<0, 0, 0, 0>>]
HostQuad == [kind |-> "hostquad", oct |-> <<172, 16, 0, 9>>]
UnkAddr == [kind |-> "unk", oct |-> <<0, 0, 0, 0>>]

RECURSIVE SumSeq(_)
SumSeq(s) == IF s = <<>> THEN 0 ELSE Head(s) + SumSeq(Tail(s))

\* rtts.reduce((a, b) => a + b, 0) / rtts.length, in thousandths of a ms.
Mean(s) == (SumSeq(s) * 1000000) \div Len(s)

\* ((3 - k) / 3) * 100 in thousandths of a percent.
LossOf(k) == ((3 - k) * 100 * 1000) \div 3

MinOf(a, b) == IF a < b THEN a ELSE b

\* isPrivateIP: the regular expressions test the leading numbers of the text.
isPrivateIP(ip) ==
    IF ip.kind = "none" THEN TRUE
    ELSE IF ip.kind # "quad" THEN FALSE
    ELSE \/ ip.oct[1] = 10
         \/ ip.oct[1] = 172 /\ ip.oct[2] \in 16..31
         \/ ip.oct[1] = 192 /\ ip.oct[2] = 168
         \/ ip.oct[1] = 127
         \/ ip.oct[1] = 169 /\ ip.oct[2] = 254

---------------------------------------------------------------------------
(* Tool text.  A line is what the parsers' regular expressions can see of  *)
(* it: num, the hop number the line starts with (0: it starts with none);  *)
(* star, it contains an asterisk; rto, it contains "Request timed out";    *)
(* addr, the first address token; ms, the numbers written before "ms", in  *)
(* whole ms (0 stands for "<1 ms" / "0 ms"); and, for an mtr report line,  *)
(* the loss, last and avg columns in whole percent / ms.                   *)

Ln(n, st, rt, a, m) ==
    [num |-> n, star |-> st, rto |-> rt, addr |-> a, ms |-> m,
     loss |-> 0, last |-> 0, avg |-> 0]
MtrLn(n, a, l, la, av) ==
    [num |-> n, star |-> FALSE, rto |-> FALSE, addr |-> a, ms |-> <<>>,
     loss |-> l, last |-> la, avg |-> av]

MaxHop == 2
MaxLines == 2
MaxStarRun == 5

\* Windows tracert and traceroute hop lines.
ProbeShapes(n) ==
    { Ln(n, TRUE, FALSE, NoIp, <<>>),            \* "n  * * *"
      Ln(n, TRUE, FALSE, PubIp, <<4>>),          \* "n  a.b.c.d  4 ms * *"
      Ln(n, FALSE, FALSE, PrivIp, <<1, 2, 3>>),
      Ln(n, FALSE, FALSE, PubIp, <<0, 3>>),       \* "<1 ms  3 ms"
      Ln(n, FALSE, FALSE, NoIp, <<2>>) }
WinShapes(n) == ProbeShapes(n) \cup { Ln(n, FALSE, TRUE, NoIp, <<>>) }

\* mtr --report hop lines.
MtrShapes(n) ==
    { MtrLn(n, PubIp, 0, 6, 5),
      MtrLn(n, PrivIp, 33, 7, 0),
      MtrLn(n, UnkAddr, 100, 0, 0),
      MtrLn(n, HostName, 0, 6, 5),
      MtrLn(n, HostQuad, 0, 6, 5),
      MtrLn(n, PubIp, 150, 0, 0) }

\* tcptraceroute hop lines.
TcpShapes(n) ==
    { Ln(n, TRUE, FALSE, NoIp, <<>>),
      Ln(n, FALSE, FALSE, PubIp, <<>>),
      Ln(n, FALSE, FALSE, PubIp, <<2>>),
      Ln(n, FALSE, FALSE, PrivIp, <<1, 3>>),
      Ln(n, FALSE, FALSE, PubIp, <<1, 2, 3>>) }

\* Lines that start with no hop number: a header or blank line, and a line
\* of further samples for the hop above it.
PlainLines == { Ln(0, FALSE, FALSE, NoIp, <<>>), Ln(0, FALSE, FALSE, NoIp, <<2, 2>>) }

Formats == {"windows", "mtr", "traceroute", "tcptraceroute"}

LinesOf(f) ==
    PlainLines \cup
    UNION { CASE f = "windows" -> WinShapes(n)
              [] f = "mtr" -> MtrShapes(n)
              [] f = "traceroute" -> ProbeShapes(n)
              [] OTHER -> TcpShapes(n) : n \in 1..MaxHop }

\* The line a tool prints for a hop that answered no probe.
StarLine(f, n) ==
    IF f = "mtr" THEN MtrLn(n, UnkAddr, 100, 0, 0)
    ELSE Ln(n, TRUE, FALSE, NoIp, <<>>)
\* The line a tool prints for the destination.
DestLine(f, n) ==
    IF f = "mtr" THEN MtrLn(n, DstIp, 0, 9, 9)
    ELSE Ln(n, FALSE, FALSE, DstIp, <<9, 9, 9>>)

\* A run of k silent hops numbered from `from`.
StarRun(f, from, k) == [i \in 1..k |-> StarLine(f, from + i - 1)]

\* The hop number the tool's next hop line carries.
NextHopNum(t) == IF t = <<>> \/ t[Len(t)].num <= MaxHop THEN MaxHop + 1
                 ELSE t[Len(t)].num + 1

---------------------------------------------------------------------------
(* The parsers *)

\* Index of the hopMap entry with key n; 0 when hopMap has none.
IndexOf(entries, n) ==
    IF \E i \in 1..Len(entries) : entries[i].hop = n
    THEN CHOOSE i \in 1..Len(entries) : entries[i].hop = n
    ELSE 0

\* hops.sort((a, b) => a.hop - b.hop): a stable insertion sort.
RECURSIVE InsertByHop(_, _)
InsertByHop(sorted, h) ==
    IF sorted = <<>> THEN <<h>>
    ELSE IF Head(sorted).hop <= h.hop
         THEN <<Head(sorted)>> \o InsertByHop(Tail(sorted), h)
         ELSE <<h>> \o sorted
RECURSIVE SortByHop(_)
SortByHop(hops) ==
    IF hops = <<>> THEN <<>>
    ELSE InsertByHop(SortByHop(SubSeq(hops, 1, Len(hops) - 1)), hops[Len(hops)])

NewHopData(n) ==
    [hop |-> n, ip |-> NoIp, rtts |-> <<>>, timeout |-> FALSE, isPrivate |-> FALSE]

\* parseTracertRTTLine: parseInt(match[1]) || 1 for every "<digits> ms".
WinSample(t) == IF t = 0 THEN 1 ELSE t
parseTracertRTTLine(line, hopData) ==
    [hopData EXCEPT !.rtts = @ \o [k \in DOMAIN line.ms |-> WinSample(line.ms[k])]]

\* One iteration of parseWindowsTracert's loop over the lines.
WinStep(st, line) ==
    IF line.num = 0
    THEN IF st.cur # 0 /\ line.ms # <<>> /\ ~line.star
         THEN [st EXCEPT !.entries[st.cur] = parseTracertRTTLine(line, @)]
         ELSE st
    ELSE LET idx == IndexOf(st.entries, line.num)
             ents == IF idx = 0 THEN Append(st.entries, NewHopData(line.num))
                     ELSE st.entries
             cur == IF idx = 0 THEN Len(ents) ELSE idx
         IN IF line.star \/ line.rto
            THEN [entries |-> [ents EXCEPT ![cur].timeout = TRUE],
                  cur |-> cur, ct |-> st.ct + 1]
            ELSE LET withIp ==
                         IF line.addr.kind = "quad"
                         THEN [ents[cur] EXCEPT !.ip = line.addr,
                                                !.isPrivate = isPrivateIP(line.addr),
                                                !.timeout = FALSE]
                         ELSE ents[cur]
                 IN [entries |-> [ents EXCEPT ![cur] = parseTracertRTTLine(line, withIp)],
                     cur |-> cur, ct |-> 0]

RECURSIVE WinLoop(_, _)
WinLoop(st, lines) ==
    IF lines = <<>> THEN st ELSE WinLoop(WinStep(st, Head(lines)), Tail(lines))

\* The hop parseWindowsTracert builds from one hopMap entry.
WinHop(hopData) ==
    LET dead == hopData.timeout \/ hopData.ip.kind = "none"
        rtt == IF ~dead /\ hopData.rtts # <<>> THEN Mean(hopData.rtts) ELSE null
        loss == IF dead THEN 100 * 1000
                ELSE IF hopData.rtts # <<>> THEN LossOf(Len(hopData.rtts))
                ELSE 0
    IN [hop |-> hopData.hop, ip |-> hopData.ip, rtt |-> rtt,
        loss |-> MinOf(loss, 100 * 1000),
        timeout |-> dead, isPrivate |-> hopData.isPrivate]

parseWindowsTracert(output) ==
    LET st == WinLoop([entries |-> <<>>, cur |-> 0, ct |-> 0], output)
    IN SortByHop([k \in DOMAIN st.entries |-> WinHop(st.entries[k])])

MAX_CONSECUTIVE_TIMEOUTS == 5

\* One iteration of parseTracerouteOutput's loop; stopped is the break.
TrStep(st, line) ==
    IF st.stopped \/ line.num = 0 THEN st
    ELSE LET idx == IndexOf(st.entries, line.num)
             ents == IF idx = 0 THEN Append(st.entries, NewHopData(line.num))
                     ELSE st.entries
             cur == IF idx = 0 THEN Len(ents) ELSE idx
         IN IF line.star
            THEN [entries |-> [ents EXCEPT ![cur].timeout = TRUE],
                  ct |-> st.ct + 1,
                  stopped |-> st.ct + 1 >= MAX_CONSECUTIVE_TIMEOUTS]
            ELSE LET e0 == [ents[cur] EXCEPT !.timeout = FALSE]
                     e1 == IF line.addr.kind = "quad"
                           THEN [e0 EXCEPT !.ip = line.addr,
                                           !.isPrivate = isPrivateIP(line.addr)]
                           ELSE e0
                     e2 == [e1 EXCEPT !.rtts = @ \o line.ms]
                 IN [entries |-> [ents EXCEPT ![cur] = e2], ct |-> 0,
                     stopped |-> FALSE]

RECURSIVE TrLoop(_, _)
TrLoop(st, lines) ==
    IF lines = <<>> THEN st ELSE TrLoop(TrStep(st, Head(lines)), Tail(lines))

\* The hop parseTracerouteOutput builds from one hopMap entry.
TrHopMutKeepRtt(hopData) ==
    LET dead == hopData.timeout \/ hopData.ip.kind = "none"
    IN [hop |-> hopData.hop, ip |-> hopData.ip,
        rtt |-> IF hopData.rtts # <<>> THEN Mean(hopData.rtts) ELSE null,
        loss |-> IF dead THEN 100 * 1000
                 ELSE IF hopData.rtts # <<>> THEN MinOf(LossOf(Len(hopData.rtts)), 100 * 1000)
                 ELSE 0,
        timeout |-> hopData.timeout, isPrivate |-> hopData.isPrivate]
TrHop(hopData) ==
    LET dead == hopData.timeout \/ hopData.ip.kind = "none"
        rtt == IF ~dead /\ hopData.rtts # <<>> THEN Mean(hopData.rtts) ELSE null
        loss == IF dead THEN 100 * 1000
                ELSE IF hopData.rtts # <<>> THEN LossOf(Len(hopData.rtts))
                ELSE 0
    IN [hop |-> hopData.hop, ip |-> hopData.ip, rtt |-> rtt,
        loss |-> MinOf(loss, 100 * 1000),
        timeout |-> hopData.timeout, isPrivate |-> hopData.isPrivate]

parseTracerouteOutput(output) ==
    LET st == TrLoop([entries |-> <<>>, ct |-> 0, stopped |-> FALSE], output)
    IN SortByHop([k \in DOMAIN st.entries |-> TrHop(st.entries[k])])

\* parseMtrOutput: one hop per line the report regex matches and whose
\* address column contains a dotted quad; pushed in line order.
Or0(a, b) == IF a # 0 THEN a ELSE b
MtrMatches(line) == line.num > 0 /\ line.addr.kind \in {"quad", "hostquad"}
MtrHop(line) ==
    [hop |-> line.num, ip |-> line.addr,
     rtt |-> Or0(line.avg * 1000000, Or0(line.last * 1000000, 0)),
     loss |-> line.loss * 1000,
     timeout |-> FALSE, isPrivate |-> isPrivateIP(line.addr)]
parseMtrOutput(output) ==
    LET matched == SelectSeq(output, MtrMatches)
    IN [k \in DOMAIN matched |-> MtrHop(matched[k])]

\* parseTcptracerouteOutput: one hop per line "n a.b.c.d [x ms] [x ms] [x ms]".
TcpMatches(line) == line.num > 0 /\ line.addr.kind = "quad" /\ ~line.star
TcpHop(line) ==
    LET rtts == SubSeq(line.ms, 1, MinOf(3, Len(line.ms)))
    IN [hop |-> line.num, ip |-> line.addr,
        rtt |-> IF rtts # <<>> THEN Mean(rtts) ELSE 0,
        loss |-> LossOf(Len(rtts)),
        timeout |-> FALSE, isPrivate |-> isPrivateIP(line.addr)]
parseTcptracerouteOutput(output) ==
    LET matched == SelectSeq(output, TcpMatches)
    IN [k \in DOMAIN matched |-> TcpHop(matched[k])]

Parse(f, output) ==
    CASE f = "windows" -> parseWindowsTracert(output)
      [] f = "mtr" -> parseMtrOutput(output)
      [] f = "traceroute" -> parseTracerouteOutput(output)
      [] OTHER -> parseTcptracerouteOutput(output)

---------------------------------------------------------------------------
(* Enrichment *)

\* What geoService.getGeoLocation resolves to for a public address: the
\* coordinates and names the API gave, or the empty fallback.
GeoResults == {"coords", "empty"}

\* What asnService.getASN resolves to for a public address: two owners the
\* lookup names, and the value it falls back to when every provider fails.
AsnResults ==
    { [org |-> "Cloudflare, Inc.", isCdn |-> TRUE, cdnProvider |-> "Cloudflare"],
      [org |-> "Akamai Technologies", isCdn |-> FALSE, cdnProvider |-> "null"],
      [org |-> "Unknown", isCdn |-> FALSE, cdnProvider |-> "null"] }

\* The hop enrichHops pushes for one parsed hop.  geo says what lat and lon
\* hold: "null", "undefined" or "num" (then lat and lon are the degrees).
\* lookedUp records that getGeoLocation and getASN were called for the hop;
\* distanceToNext is null until calculateDistances writes it.
\* getGeoLocation is async and is not awaited, so geo is a promise and
\* geo.lat, geo.lon, geo.city and geo.country are undefined; geoPromise
\* records what that promise resolves to.
enrichHopMutLookupPrivate(hop, geo, asn) ==
    IF hop.timeout \/ hop.ip.kind = "none"
    THEN [hop |-> hop.hop, ip |-> hop.ip, rtt |-> hop.rtt, loss |-> hop.loss,
          timeout |-> hop.timeout, isPrivate |-> hop.isPrivate,
          geo |-> "null", lat |-> 0, lon |-> 0,
          country |-> IF hop.isPrivate THEN "Local" ELSE "Unknown",
          asnOrg |-> IF hop.isPrivate THEN "Private Network" ELSE "Unknown",
          isCdn |-> FALSE, cdnProvider |-> "null",
          routeType |-> "land", cableUsed |-> "null", distanceToNext |-> null,
          lookedUp |-> FALSE, geoPromise |-> "none"]
    ELSE [hop |-> hop.hop, ip |-> hop.ip, rtt |-> hop.rtt, loss |-> hop.loss,
          timeout |-> hop.timeout, isPrivate |-> hop.isPrivate,
          geo |-> "undefined", lat |-> 0, lon |-> 0,
          country |-> "Unknown",
          asnOrg |-> asn.org,
          isCdn |-> asn.isCdn, cdnProvider |-> asn.cdnProvider,
          routeType |-> "land", cableUsed |-> "null", distanceToNext |-> null,
          lookedUp |-> TRUE, geoPromise |-> geo]
enrichHop(hop, geo, asn) ==
    IF hop.timeout \/ hop.ip.kind = "none" \/ hop.isPrivate
    THEN [hop |-> hop.hop, ip |-> hop.ip, rtt |-> hop.rtt, loss |-> hop.loss,
          timeout |-> hop.timeout, isPrivate |-> hop.isPrivate,
          geo |-> "null", lat |-> 0, lon |-> 0,
          country |-> IF hop.isPrivate THEN "Local" ELSE "Unknown",
          asnOrg |-> IF hop.isPrivate THEN "Private Network" ELSE "Unknown",
          isCdn |-> FALSE, cdnProvider |-> "null",
          routeType |-> "land", cableUsed |-> "null", distanceToNext |-> null,
          lookedUp |-> FALSE, geoPromise |-> "none"]
    ELSE [hop |-> hop.hop, ip |-> hop.ip, rtt |-> hop.rtt, loss |-> hop.loss,
          timeout |-> hop.timeout, isPrivate |-> hop.isPrivate,
          geo |-> "undefined", lat |-> 0, lon |-> 0,
          country |-> "Unknown",
          asnOrg |-> asn.org,
          isCdn |-> asn.isCdn, cdnProvider |-> asn.cdnProvider,
          routeType |-> "land", cableUsed |-> "null", distanceToNext |-> null,
          lookedUp |-> TRUE, geoPromise |-> geo]

\* enrichHops: one enriched hop per hop, in order; geo[i] and asn[i] are
\* what the lookups resolve to for hop i.
enrichHopsMutAbort(hopList, geo, asn) ==
    LET failed == {i \in DOMAIN hopList :
                     enrichHop(hopList[i], geo[i], asn[i]).lookedUp /\ asn[i].org = "Unknown"}
        n == IF failed = {} THEN Len(hopList)
             ELSE (CHOOSE i \in failed : \A j \in failed : i <= j) - 1
    IN [i \in 1..n |-> enrichHop(hopList[i], geo[i], asn[i])]
enrichHops(hopList, geo, asn) ==
    [i \in DOMAIN hopList |-> enrichHop(hopList[i], geo[i], asn[i])]

\* !hop.lat
NoLat(hop) == hop.geo # "num" \/ hop.lat = 0

---------------------------------------------------------------------------
(* Geometry.  calculateDistance / haversineDistance are tabulated over the  *)
(* points the model uses (hop places, the coordinate midpoints of two      *)
(* places, cable vertices): HavTable[i][j] is R * c of the source for Pts[i] *)
(* and Pts[j], in half kilometres.  A point is <<lat, lon>> in degrees.    *)

Pts ==
    << <<40, -74>>, <<42, -70>>, <<52, 0>>, <<48, 2>>, <<48, -122>>, <<41, -72>>,
       <<46, -37>>, <<44, -36>>, <<44, -98>>, <<47, -35>>, <<45, -34>>, <<45, -96>>,
       <<50, 1>>, <<50, -61>>, <<48, -60>>, <<46, -40>>, <<50, -4>>, <<52, -6>>,
       <<-4, -38>>, <<-9, 13>>, <<0, -52>> >>
HavTable ==
    << <<0, 805, 11223, 11789, 7750, 405, 6106, 6286, 4049, 6410, 6583, 3761, 11496, 3012, 2853, 5642, 10817, 10431, 12234, 20792, 9951>>,
       <<805, 0, 10422, 10984, 8127, 401, 5314, 5509, 4554, 5613, 5797, 4228, 10692, 2255, 2059, 4851, 10012, 9628, 12100, 20209, 10014>>,
       <<11223, 10422, 0, 934, 15223, 10821, 5496, 5578, 13552, 5123, 5192, 13171, 466, 8294, 8377, 5907, 715, 821, 14366, 13792, 15062>>,
       <<11789, 10984, 934, 0, 16107, 11384, 5868, 5876, 14314, 5510, 5500, 13930, 468, 8925, 8966, 6306, 982, 1447, 13932, 12860, 14864>>,
       <<7750, 8127, 15223, 16107, 0, 7938, 12208, 12598, 3796, 12327, 12716, 4016, 15662, 8660, 8966, 11827, 15222, 14702, 19787, 27955, 17073>>,
       <<405, 401, 10821, 11384, 7938, 0, 5706, 5893, 4297, 6008, 6186, 3988, 11093, 2630, 2454, 5243, 10412, 10028, 12156, 20495, 9970>>,
       <<6106, 5314, 5496, 5868, 12208, 5706, 0, 472, 9363, 378, 518, 8983, 5661, 3663, 3503, 463, 4949, 4675, 11121, 15750, 10643>>,
       <<6286, 5509, 5578, 5876, 12598, 5893, 472, 0, 9672, 685, 387, 9295, 5705, 3997, 3796, 770, 4991, 4763, 10682, 15357, 10286>>,
       <<4049, 4554, 13552, 14314, 3796, 4297, 9363, 9672, 0, 9574, 9880, 387, 13927, 5705, 5876, 8926, 13345, 12868, 15994, 24752, 13348>>,
       <<6410, 5613, 5123, 5510, 12327, 6008, 378, 685, 9574, 0, 471, 9191, 5295, 3869, 3746, 797, 4583, 4302, 11357, 15645, 10962>>,
       <<6583, 5797, 5192, 5500, 12716, 6186, 518, 387, 9880, 471, 0, 9499, 5323, 4181, 4016, 961, 4609, 4377, 10926, 15245, 10617>>,
       <<3761, 4228, 13171, 13930, 4016, 3988, 8983, 9295, 387, 9191, 9499, 0, 13544, 5323, 5500, 8547, 12960, 12484, 15804, 24408, 13216>>,
       <<11496, 10692, 466, 468, 15662, 11093, 5661, 5705, 13927, 5295, 5323, 13544, 0, 8599, 8660, 6087, 715, 1075, 14140, 13326, 14954>>,
       <<3012, 2255, 8294, 8925, 8660, 2630, 3663, 3997, 5705, 3869, 4181, 5323, 8599, 0, 468, 3237, 7944, 7525, 12795, 19312, 11251>>,
       <<2853, 2059, 8377, 8966, 8966, 2454, 3503, 3796, 5876, 3746, 4016, 5500, 8660, 468, 0, 3057, 7989, 7591, 12333, 19033, 10786>>,
       <<5642, 4851, 5907, 6306, 11827, 5243, 463, 770, 8926, 797, 961, 8547, 6087, 3237, 3057, 0, 5377, 5086, 11127, 16128, 10496>>,
       <<10817, 10012, 715, 982, 15222, 10412, 4949, 4991, 13345, 4583, 4609, 12960, 715, 7944, 7989, 5377, 0, 525, 13662, 13530, 14350>>,
       <<10431, 9628, 821, 1447, 14702, 10028, 4675, 4763, 12868, 4302, 4377, 12484, 1075, 7525, 7591, 5086, 525, 0, 13840, 14044, 14384>>,
       <<12234, 12100, 14366, 13932, 19787, 12156, 11121, 10682, 15994, 11357, 10926, 15804, 14140, 12795, 12333, 11127, 13662, 13840, 0, 11315, 3236>>,
       <<20792, 20209, 13792, 12860, 27955, 20495, 15750, 15357, 24752, 15645, 15245, 24408, 13326, 19312, 19033, 16128, 13530, 14044, 11315, 0, 14528>>,
       <<9951, 10014, 15062, 14864, 17073, 9970, 10643, 10286, 13348, 10962, 10617, 13216, 14954, 11251, 10786, 10496, 14350, 14384, 3236, 14528, 0>> >>

PtIdx(lat, lon) == CHOOSE i \in DOMAIN Pts : Pts[i] = <<lat, lon>>

calculateDistance(lat1, lon1, lat2, lon2) == HavTable[PtIdx(lat1, lon1)][PtIdx(lat2, lon2)]
haversineDistance(lat1, lon1, lat2, lon2) == HavTable[PtIdx(lat1, lon1)][PtIdx(lat2, lon2)]

\* Math.round of a distance held in half kilometres, in kilometres.
Round(d) == (d + 1) \div 2

\* Math.sqrt on integers: the largest r with r * r <= x.
RECURSIVE SqrtIn(_, _, _)
SqrtIn(x, lo, hi) ==
    IF lo >= hi THEN lo
    ELSE LET mid == (lo + hi + 1) \div 2
         IN IF mid * mid <= x THEN SqrtIn(x, mid, hi) ELSE SqrtIn(x, lo, mid - 1)
Sqrt(x) == SqrtIn(x, 0, 46340)

Min3(a, b, c) == MinOf(a, MinOf(b, c))

\* pointToSegmentDistance.  The area is Heron's formula, its square root
\* taken as the product of two roots to stay within the integers; the dot
\* product is in degrees over km squared, as in the source.
pointToSegmentDistance(pLat, pLon, aLat, aLon, bLat, bLon) ==
    LET distPA == calculateDistance(pLat, pLon, aLat, aLon)
        distPB == calculateDistance(pLat, pLon, bLat, bLon)
        distAB == calculateDistance(aLat, aLon, bLat, bLon)
        s == (distPA + distPB + distAB) \div 2
        area == IF s - distPA < 0 \/ s - distPB < 0 \/ s - distAB < 0 THEN 0
                ELSE Sqrt(s * (s - distPA)) * Sqrt((s - distPB) * (s - distAB))
        perpDist == (2 * area) \div distAB
        dotNum == (pLat - aLat) * (bLat - aLat) + (pLon - aLon) * (bLon - aLon)
    IN IF distAB < 1 * 2 THEN MinOf(distPA, distPB)
       ELSE IF dotNum < 0 THEN distPA
       ELSE IF 4 * dotNum > distAB * distAB THEN distPB
       ELSE perpDist

Infinity == 2000000000

\* calculateRouteProximity: the least distance from the route's midpoint and
\* two ends to any segment of the cable.  A vertex is <<lon, lat>>.
RECURSIVE ProximityFrom(_, _, _, _, _, _, _)
ProximityFrom(i, minDist, lat1, lon1, lat2, lon2, cc) ==
    IF i > Len(cc) - 1 THEN minDist
    ELSE LET midLat == (lat1 + lat2) \div 2
             midLon == (lon1 + lon2) \div 2
             distMid == pointToSegmentDistance(midLat, midLon,
                            cc[i][2], cc[i][1], cc[i + 1][2], cc[i + 1][1])
             distStart == pointToSegmentDistance(lat1, lon1,
                            cc[i][2], cc[i][1], cc[i + 1][2], cc[i + 1][1])
             distEnd == pointToSegmentDistance(lat2, lon2,
                            cc[i][2], cc[i][1], cc[i + 1][2], cc[i + 1][1])
         IN ProximityFrom(i + 1, MinOf(minDist, Min3(distMid, distStart, distEnd)),
                          lat1, lon1, lat2, lon2, cc)
calculateRouteProximity(lat1, lon1, lat2, lon2, cableCoordinates) ==
    ProximityFrom(1, Infinity, lat1, lon1, lat2, lon2, cableCoordinates)

---------------------------------------------------------------------------
(* Cable classification *)

\* A feature of the cable dataset: properties.id ("" when absent),
\* properties.name, geometry.type and geometry.coordinates.
NoCable == [id |-> "", name |-> "", type |-> "", coordinates |-> <<>>]
CableTat == [id |-> "tat-14", name |-> "TAT-14", type |-> "LineString",
             coordinates |-> << <<-74, 40>>, <<-40, 46>>, <<-4, 50>> >>]
CableTatNorth == [id |-> "tat-14", name |-> "TAT-14 North", type |-> "LineString",
                  coordinates |-> << <<-70, 42>>, <<-6, 52>> >>]
CableChannel == [id |-> "", name |-> "UK-France 3", type |-> "LineString",
                 coordinates |-> << <<0, 52>>, <<2, 48>> >>]
CableMulti == [id |-> "marea", name |-> "MAREA", type |-> "MultiLineString",
               coordinates |-> << <<-74, 40>>, <<-4, 50>> >>]
Dataset == << CableMulti, CableTat, CableTatNorth, CableChannel >>
\* A cable of the South Atlantic, far from every hop place: what the dataset
\* holds when the cable a route took is not in it.
CableSacs == [id |-> "sacs", name |-> "SACS", type |-> "LineString",
              coordinates |-> << <<-38, -4>>, <<13, -9>> >>]

threshold == 1000 * 2

\* findNearestCable: the cable with the least proximity, when that is under
\* the threshold; NoCable stands for null.
RECURSIVE NearestFrom(_, _, _, _, _, _)
NearestFrom(i, nearestCable, minDistance, hop1, hop2, cs) ==
    IF i > Len(cs) THEN nearestCable
    ELSE LET cable == cs[i]
         IN IF cable.type # "LineString" \/ Len(cable.coordinates) < 2
            THEN NearestFrom(i + 1, nearestCable, minDistance, hop1, hop2, cs)
            ELSE LET distance == calculateRouteProximity(hop1.lat, hop1.lon,
                                     hop2.lat, hop2.lon, cable.coordinates)
                 IN IF distance < minDistance
                    THEN NearestFrom(i + 1,
                             IF distance < threshold THEN cable ELSE nearestCable,
                             distance, hop1, hop2, cs)
                    ELSE NearestFrom(i + 1, nearestCable, minDistance, hop1, hop2, cs)
findNearestCable(hop1, hop2, cs) ==
    IF Len(cs) = 0 THEN NoCable
    ELSE NearestFrom(1, NoCable, Infinity, hop1, hop2, cs)

\* properties.id || properties.cable_id || cableName
CableIdOf(cable) == IF cable.id # "" THEN cable.id ELSE cable.name

\* The test that sends a hop pair to the cable search.
isSubmarineCableRouteMutOr(hop1, hop2) ==
    LET distance == calculateDistance(hop1.lat, hop1.lon, hop2.lat, hop2.lon)
        isDifferentCountry == hop1.country # hop2.country
        isLongDistance == distance > 800 * 2
        isMarkedAsSea == hop1.routeType = "sea"
    IN (isLongDistance \/ isDifferentCountry) \/ (isMarkedAsSea /\ distance > 500 * 2)
isSubmarineCableRoute(hop1, hop2) ==
    LET distance == calculateDistance(hop1.lat, hop1.lon, hop2.lat, hop2.lon)
        isDifferentCountry == hop1.country # hop2.country
        isLongDistance == distance > 800 * 2
        isMarkedAsSea == hop1.routeType = "sea"
    IN (isLongDistance /\ isDifferentCountry) \/ (isMarkedAsSea /\ distance > 500 * 2)

\* The loop of analyzeCableUsage over the hop pairs: cablesUsed grows by one
\* entry for a matched cable whose id is not in usedCableIds.  The hops are
\* only read.
RECURSIVE AnalyzeFrom(_, _, _, _, _)
RECURSIVE AnalyzeFromMutNoDedupe(_, _, _, _, _)
AnalyzeFromMutNoDedupe(i, used, usedCableIds, hopList, cs) ==
    IF i > Len(hopList) - 1 THEN used
    ELSE LET hop1 == hopList[i]
             hop2 == hopList[i + 1]
         IN IF NoLat(hop1) \/ NoLat(hop2) \/ ~isSubmarineCableRoute(hop1, hop2)
            THEN AnalyzeFromMutNoDedupe(i + 1, used, usedCableIds, hopList, cs)
            ELSE LET cable == findNearestCable(hop1, hop2, cs)
                     info == [id |-> CableIdOf(cable), name |-> cable.name,
                              from |-> hop1.country, to |-> hop2.country,
                              hopRange |-> <<hop1.hop, hop2.hop>>,
                              distance |-> Round(calculateDistance(hop1.lat, hop1.lon,
                                                                   hop2.lat, hop2.lon))]
                 IN IF cable = NoCable
                    THEN AnalyzeFromMutNoDedupe(i + 1, used, usedCableIds, hopList, cs)
                    ELSE AnalyzeFromMutNoDedupe(i + 1, Append(used, info),
                                                usedCableIds, hopList, cs)
AnalyzeFrom(i, used, usedCableIds, hopList, cs) ==
    IF i > Len(hopList) - 1 THEN used
    ELSE LET hop1 == hopList[i]
             hop2 == hopList[i + 1]
         IN IF NoLat(hop1) \/ NoLat(hop2)
            THEN AnalyzeFrom(i + 1, used, usedCableIds, hopList, cs)
            ELSE IF ~isSubmarineCableRoute(hop1, hop2)
            THEN AnalyzeFrom(i + 1, used, usedCableIds, hopList, cs)
            ELSE LET cable == findNearestCable(hop1, hop2, cs)
                     cableId == CableIdOf(cable)
                     info == [id |-> cableId, name |-> cable.name,
                              from |-> hop1.country, to |-> hop2.country,
                              hopRange |-> <<hop1.hop, hop2.hop>>,
                              distance |-> Round(calculateDistance(hop1.lat, hop1.lon,
                                                                   hop2.lat, hop2.lon))]
                 IN IF cable = NoCable \/ cableId \in usedCableIds
                    THEN AnalyzeFrom(i + 1, used, usedCableIds, hopList, cs)
                    ELSE AnalyzeFrom(i + 1, Append(used, info),
                                     usedCableIds \cup {cableId}, hopList, cs)

\* analyzeCableUsage once the dataset question is settled: nothing without
\* data, else the loop.
analyzeCableUsage(hopList, cs) ==
    IF Len(cs) = 0 THEN <<>> ELSE AnalyzeFrom(1, <<>>, {}, hopList, cs)

---------------------------------------------------------------------------
(* Aggregation *)

\* The sums of calculateDistances, in half kilometres, up to pair i.
RECURSIVE SumsFrom(_, _, _)
RECURSIVE SumsFromMutLandAlways(_, _, _)
SumsFromMutLandAlways(i, acc, hopList) ==
    IF i > Len(hopList) - 1 THEN acc
    ELSE LET hop1 == hopList[i]
             hop2 == hopList[i + 1]
         IN IF NoLat(hop1) \/ NoLat(hop2) THEN SumsFromMutLandAlways(i + 1, acc, hopList)
            ELSE LET distance == haversineDistance(hop1.lat, hop1.lon, hop2.lat, hop2.lon)
                     isSea == hop1.routeType = "sea"
                 IN SumsFromMutLandAlways(i + 1,
                        [total |-> acc.total + distance,
                         land |-> acc.land + distance,
                         sea |-> IF isSea THEN acc.sea + distance ELSE acc.sea],
                        hopList)
SumsFrom(i, acc, hopList) ==
    IF i > Len(hopList) - 1 THEN acc
    ELSE LET hop1 == hopList[i]
             hop2 == hopList[i + 1]
         IN IF NoLat(hop1) \/ NoLat(hop2) THEN SumsFrom(i + 1, acc, hopList)
            ELSE LET distance == haversineDistance(hop1.lat, hop1.lon, hop2.lat, hop2.lon)
                     isSea == hop1.routeType = "sea"
                 IN SumsFrom(i + 1,
                        [total |-> acc.total + distance,
                         land |-> IF isSea THEN acc.land ELSE acc.land + distance,
                         sea |-> IF isSea THEN acc.sea + distance ELSE acc.sea],
                        hopList)

\* calculateDistances: the three rounded sums.
calculateDistances(hopList) ==
    LET sums == SumsFrom(1, [total |-> 0, land |-> 0, sea |-> 0], hopList)
    IN [total |-> Round(sums.total), land |-> Round(sums.land), sea |-> Round(sums.sea)]

\* calculateDistances: the hops as it leaves them (distanceToNext written).
WithDistances(hopList) ==
    [i \in DOMAIN hopList |->
        IF i = Len(hopList) THEN [hopList[i] EXCEPT !.distanceToNext = 0]
        ELSE IF NoLat(hopList[i]) \/ NoLat(hopList[i + 1]) THEN hopList[i]
        ELSE [hopList[i] EXCEPT !.distanceToNext =
                 Round(haversineDistance(hopList[i].lat, hopList[i].lon,
                                         hopList[i + 1].lat, hopList[i + 1].lon))]]

\* asnOrg.toLowerCase().includes(word), for the organisation names in use.
OrgIncludes(org, word) ==
    \/ word = "cloudflare" /\ org = "Cloudflare, Inc."
    \/ word = "akamai" /\ org = "Akamai Technologies"
    \/ word = "fastly" /\ org = "Fastly, Inc."

NotDetected == [detected |-> FALSE, provider |-> "null", hopNumber |-> null]

\* detectCDN: the first hop, in order, that is flagged with a provider or
\* whose organisation name holds a keyword.
RECURSIVE DetectFrom(_, _)
DetectFrom(i, hopList) ==
    IF i > Len(hopList) THEN NotDetected
    ELSE LET hop == hopList[i]
         IN IF hop.isCdn /\ hop.cdnProvider # "null"
            THEN [detected |-> TRUE, provider |-> hop.cdnProvider, hopNumber |-> hop.hop]
            ELSE IF OrgIncludes(hop.asnOrg, "cloudflare")
            THEN [detected |-> TRUE, provider |-> "Cloudflare", hopNumber |-> hop.hop]
            ELSE IF OrgIncludes(hop.asnOrg, "akamai")
            THEN [detected |-> TRUE, provider |-> "Akamai", hopNumber |-> hop.hop]
            ELSE IF OrgIncludes(hop.asnOrg, "fastly")
            THEN [detected |-> TRUE, provider |-> "Fastly", hopNumber |-> hop.hop]
            ELSE DetectFrom(i + 1, hopList)
detectCDN(hopList) == DetectFrom(1, hopList)

\* calculateTotalTime: the rtt of the last hop, from the end, that is not a
\* timeout and has rtt > 0; 0 when there is none.
RECURSIVE TotalTimeFrom(_, _)
TotalTimeFrom(i, hopList) ==
    IF i < 1 THEN 0
    ELSE IF hopList[i].rtt # null /\ ~hopList[i].timeout /\ hopList[i].rtt > 0
    THEN hopList[i].rtt
    ELSE TotalTimeFrom(i - 1, hopList)
\* Math.round(totalRtt * 1000) / 1000: to the nearest thousandth of a ms.
RoundMilli(x) == ((x + 500) \div 1000) * 1000
calculateTotalTimeMutHalved(hopList) ==
    RoundMilli(TotalTimeFrom(Len(hopList), hopList) \div 2)
calculateTotalTime(hopList) == RoundMilli(TotalTimeFrom(Len(hopList), hopList))

---------------------------------------------------------------------------
(* The cable data loader *)

\* Callers of the CableService: 0 is the constructor's loadCables, 1 to
\* MaxTraces are traces calling analyzeCableUsage, the last is refreshData.
MaxTraces == 2
Constructor == 0
Traces == 1..MaxTraces
Refresher == MaxTraces + 1
Callers == 0..(MaxTraces + 1)

\* What loadCables does on entry: poll until the load in flight is over,
\* return on a valid cache, or fetch.
loadCablesEntryMutNoGuard(loading, fetchedAt, cs) ==
    IF fetchedAt = "set" /\ Len(cs) > 0 THEN "cached" ELSE "fetch"
loadCablesEntry(loading, fetchedAt, cs) ==
    IF loading THEN "wait"
    ELSE IF fetchedAt = "set" /\ Len(cs) > 0 THEN "cached"
    ELSE "fetch"

\* The service with no load in flight and no caller inside it.
LoaderSettled ==
    /\ isLoading = FALSE /\ loadAttempted = TRUE
    /\ lastFetch = IF Len(cables) = 0 THEN "null" ELSE "set"
    /\ lpc = [c \in Callers |-> "idle"]
    /\ seen = [t \in Traces |-> "none"]

---------------------------------------------------------------------------
(* SpecParse: a parser applied to any text of its format *)

Idle ==
    /\ platform = "linux" /\ tpc = "idle" /\ attempts = <<>> /\ probeHops = <<>>
    /\ enrichedHops = <<>> /\ cables = <<>> /\ cableInfo = <<>>
    /\ result = [success |-> FALSE, error |-> ""]
    /\ LoaderSettled

InitParse ==
    /\ fmt \in Formats
    /\ text = <<>>
    /\ parsed = <<>>
    /\ ppc = "head"
    /\ Idle

\* The tool prints one more line: any line of its format.
PrintLine ==
    /\ ppc = "head" /\ Len(text) < MaxLines
    /\ \E line \in LinesOf(fmt) : text' = Append(text, line)
    /\ UNCHANGED <<fmt, parsed, ppc, tvars, lvars>>

\* The tool prints a run of hops that answered no probe.
PrintSilentRun ==
    /\ ppc = "head"
    /\ text' = text \o StarRun(fmt, MaxHop + 1, MaxStarRun)
    /\ ppc' = "silent"
    /\ UNCHANGED <<fmt, parsed, tvars, lvars>>

\* The tool prints the destination's line.
PrintDest ==
    /\ ppc \in {"head", "silent"}
    /\ text' = Append(text, DestLine(fmt, NextHopNum(text)))
    /\ ppc' = "dest"
    /\ UNCHANGED <<fmt, parsed, tvars, lvars>>

Printed == ppc \in {"head", "silent", "dest"}

ParseWindows ==
    /\ Printed /\ fmt = "windows"
    /\ parsed' = parseWindowsTracert(text)
    /\ ppc' = "parsed"
    /\ UNCHANGED <<fmt, text, tvars, lvars>>

ParseMtr ==
    /\ Printed /\ fmt = "mtr"
    /\ parsed' = parseMtrOutput(text)
    /\ ppc' = "parsed"
    /\ UNCHANGED <<fmt, text, tvars, lvars>>

ParseTraceroute ==
    /\ Printed /\ fmt = "traceroute"
    /\ parsed' = parseTracerouteOutput(text)
    /\ ppc' = "parsed"
    /\ UNCHANGED <<fmt, text, tvars, lvars>>

ParseTcptraceroute ==
    /\ Printed /\ fmt = "tcptraceroute"
    /\ parsed' = parseTcptracerouteOutput(text)
    /\ ppc' = "parsed"
    /\ UNCHANGED <<fmt, text, tvars, lvars>>

NextParse ==
    \/ PrintLine \/ PrintSilentRun \/ PrintDest
    \/ ParseWindows \/ ParseMtr \/ ParseTraceroute \/ ParseTcptraceroute

SpecParse == InitParse /\ [][NextParse]_vars

---------------------------------------------------------------------------
(* SpecTrace: traceRoute(domain), one action per awaited call *)

\* What the resolver does: resolve4 answers; resolve4 answers with no
\* address and lookup answers; resolve4 answers with no address and lookup
\* rejects; resolve4 rejects.
DnsOutcomes == {"resolve4", "lookup", "lookup_rejects", "resolve4_rejects"}

\* resolveDomain: the address, or null when a call rejected (it catches).
resolveDomainMutNoCatch(o) ==
    IF o \in {"resolve4", "lookup"} THEN [threw |-> FALSE, ip |-> "ip", message |-> ""]
    ELSE [threw |-> TRUE, ip |-> "null", message |-> "queryA ENOTFOUND"]
resolveDomain(o) ==
    IF o \in {"resolve4", "lookup"} THEN [threw |-> FALSE, ip |-> "ip", message |-> ""]
    ELSE [threw |-> FALSE, ip |-> "null", message |-> ""]

Failure(msg) ==
    [success |-> FALSE, error |-> msg, totalHops |-> 0, totalDistance |-> 0,
     landDistance |-> 0, seaDistance |-> 0, totalTime |-> 0,
     hasCdn |-> FALSE, cdnProvider |-> "null", cdnHop |-> null]
Pending == Failure("")

\* What a command can leave on stdout: nothing, a line that is no hop line,
\* a trace that reached the destination, a trace cut after a silent hop, a
\* trace whose first hop is the local gateway.
FirstHopLine(f) ==
    IF f = "mtr" THEN MtrLn(1, PubIp, 0, 6, 5) ELSE Ln(1, FALSE, FALSE, PubIp, <<1, 2, 3>>)
GatewayLine(f) ==
    IF f = "mtr" THEN MtrLn(1, PrivIp, 0, 1, 1) ELSE Ln(1, FALSE, FALSE, PrivIp, <<1, 1, 1>>)
RunTexts(f) ==
    { <<>>,
      << Ln(0, FALSE, FALSE, NoIp, <<>>) >>,
      << FirstHopLine(f), DestLine(f, 2) >>,
      << FirstHopLine(f), StarLine(f, 2) >>,
      << GatewayLine(f), DestLine(f, 2) >> }

Platforms == {"win32", "linux", "darwin", "freebsd"}

InitTrace ==
    /\ fmt = "windows" /\ text = <<>> /\ parsed = <<>> /\ ppc = "idle"
    /\ platform \in Platforms
    /\ tpc = "start"
    /\ attempts = <<>>
    /\ probeHops = <<>>
    /\ enrichedHops = <<>>
    /\ cables \in {<<>>, Dataset}
    /\ cableInfo = <<>>
    /\ result = Pending
    /\ LoaderSettled

Attempt(m, ok, out) == [method |-> m, ok |-> ok, stdout |-> out]

\* const targetIp = await this.resolveDomain(domain), and the return or the
\* catch that follows it.
ResolveDomain ==
    /\ tpc = "start"
    /\ \E o \in DnsOutcomes :
         LET r == resolveDomain(o)
         IN IF r.threw
            THEN tpc' = "done" /\ result' = Failure(r.message)
            ELSE IF r.ip = "null"
            THEN tpc' = "done" /\ result' = Failure("Could not resolve domain")
            ELSE tpc' = "run" /\ result' = result
    /\ UNCHANGED <<lvars, pvars, platform, attempts, probeHops, enrichedHops, cables, cableInfo>>

\* runTraceroute on Windows: tracert; on failure the outer catch parses
\* error.stdout when there is any.
RunTracert ==
    /\ tpc = "run" /\ platform = "win32"
    /\ \E ok \in BOOLEAN, out \in RunTexts("windows") :
         /\ attempts' = Append(attempts, Attempt("tracert", ok, out))
         /\ probeHops' = IF ok \/ out # <<>> THEN parseWindowsTracert(out) ELSE <<>>
    /\ tpc' = "probed"
    /\ UNCHANGED <<lvars, pvars, platform, enrichedHops, cables, cableInfo, result>>

\* runTraceroute elsewhere: mtr first; its failure leads to traceroute.
RunMtrMutAlwaysNext ==
    /\ tpc = "run" /\ platform # "win32"
    /\ \E ok \in BOOLEAN, out \in RunTexts("mtr") :
         /\ attempts' = Append(attempts, Attempt("mtr", ok, out))
         /\ probeHops' = IF ok THEN parseMtrOutput(out) ELSE probeHops
         /\ tpc' = "traceroute"
    /\ UNCHANGED <<lvars, pvars, platform, enrichedHops, cables, cableInfo, result>>
RunMtrMutFallbackOnEmpty ==
    /\ tpc = "run" /\ platform # "win32"
    /\ \E ok \in BOOLEAN, out \in RunTexts("mtr") :
         /\ attempts' = Append(attempts, Attempt("mtr", ok, out))
         /\ IF ok /\ parseMtrOutput(out) # <<>>
            THEN probeHops' = parseMtrOutput(out) /\ tpc' = "probed"
            ELSE probeHops' = probeHops /\ tpc' = "traceroute"
    /\ UNCHANGED <<lvars, pvars, platform, enrichedHops, cables, cableInfo, result>>
RunMtr ==
    /\ tpc = "run" /\ platform # "win32"
    /\ \E ok \in BOOLEAN, out \in RunTexts("mtr") :
         /\ attempts' = Append(attempts, Attempt("mtr", ok, out))
         /\ IF ok
            THEN probeHops' = parseMtrOutput(out) /\ tpc' = "probed"
            ELSE probeHops' = probeHops /\ tpc' = "traceroute"
    /\ UNCHANGED <<lvars, pvars, platform, enrichedHops, cables, cableInfo, result>>

\* catch (tracerouteError): the partial output is returned when it parses to
\* at least one hop; else tcptraceroute is next.
TracerouteFailed(out) ==
    IF out # <<>> /\ parseTracerouteOutput(out) # <<>>
    THEN probeHops' = parseTracerouteOutput(out) /\ tpc' = "probed"
    ELSE probeHops' = probeHops /\ tpc' = "tcptraceroute"

\* traceroute; denied: it succeeded with "Operation not permitted" on stderr.
RunTracerouteCmd ==
    /\ tpc = "traceroute"
    /\ \E ok \in BOOLEAN, denied \in BOOLEAN, out \in RunTexts("traceroute") :
         /\ attempts' = Append(attempts, Attempt("traceroute", ok, out))
         /\ IF ok /\ denied THEN probeHops' = probeHops /\ tpc' = "retry"
            ELSE IF ok THEN probeHops' = parseTracerouteOutput(out) /\ tpc' = "probed"
            ELSE TracerouteFailed(out)
    /\ UNCHANGED <<lvars, pvars, platform, enrichedHops, cables, cableInfo, result>>

\* traceroute again with " -I " taken out of the command.
RunTracerouteRetry ==
    /\ tpc = "retry"
    /\ \E ok \in BOOLEAN, out \in RunTexts("traceroute") :
         /\ attempts' = Append(attempts, Attempt("traceroute retry", ok, out))
         /\ IF ok THEN probeHops' = parseTracerouteOutput(out) /\ tpc' = "probed"
            ELSE TracerouteFailed(out)
    /\ UNCHANGED <<lvars, pvars, platform, enrichedHops, cables, cableInfo, result>>

\* tcptraceroute; its failure returns [].
RunTcptraceroute ==
    /\ tpc = "tcptraceroute"
    /\ \E ok \in BOOLEAN, out \in RunTexts("tcptraceroute") :
         /\ attempts' = Append(attempts, Attempt("tcptraceroute", ok, out))
         /\ probeHops' = IF ok THEN parseTcptracerouteOutput(out) ELSE <<>>
    /\ tpc' = "probed"
    /\ UNCHANGED <<lvars, pvars, platform, enrichedHops, cables, cableInfo, result>>

\* if (!hops || hops.length === 0) return { success: false, ... }
NoHopsMutTruthy ==
    /\ tpc = "probed" /\ probeHops = <<>>
    /\ enrichedHops' = <<>>
    /\ tpc' = "enriched"
    /\ UNCHANGED <<lvars, pvars, platform, attempts, probeHops, cables, cableInfo, result>>
NoHops ==
    /\ tpc = "probed" /\ probeHops = <<>>
    /\ result' = Failure("Traceroute failed - no hops returned")
    /\ tpc' = "done"
    /\ UNCHANGED <<lvars, pvars, platform, attempts, probeHops, enrichedHops, cables, cableInfo>>

\* const enrichedHops = await this.enrichHops(hops)
EnrichHops ==
    /\ tpc = "probed" /\ probeHops # <<>>
    /\ \E geo \in [DOMAIN probeHops -> GeoResults], asn \in [DOMAIN probeHops -> AsnResults] :
         enrichedHops' = enrichHops(probeHops, geo, asn)
    /\ tpc' = "enriched"
    /\ UNCHANGED <<lvars, pvars, platform, attempts, probeHops, cables, cableInfo, result>>

\* const cableInfo = await cableService.analyzeCableUsage(enrichedHops),
\* called with no load in flight.  With no data it first loads: the fetch
\* fills this.cables or, failing, leaves it empty.
AnalyzeCableUsage ==
    /\ tpc = "enriched"
    /\ IF Len(cables) = 0 /\ ~isLoading
       THEN \E ok \in BOOLEAN :
              /\ cables' = IF ok THEN Dataset ELSE cables
              /\ lastFetch' = IF ok THEN "set" ELSE lastFetch
       ELSE UNCHANGED <<cables, lastFetch>>
    /\ cableInfo' = analyzeCableUsage(enrichedHops, cables')
    /\ tpc' = "analyzed"
    /\ UNCHANGED <<isLoading, loadAttempted, lpc, seen>>
    /\ UNCHANGED <<pvars, platform, attempts, probeHops, enrichedHops, result>>

\* calculateDistances, detectCDN, calculateTotalTime and the returned object.
Aggregate ==
    /\ tpc = "analyzed"
    /\ LET distances == calculateDistances(enrichedHops)
           cdnInfo == detectCDN(enrichedHops)
       IN result' = [success |-> TRUE, error |-> "",
                     totalHops |-> Len(enrichedHops),
                     totalDistance |-> distances.total,
                     landDistance |-> distances.land,
                     seaDistance |-> distances.sea,
                     totalTime |-> calculateTotalTime(enrichedHops),
                     hasCdn |-> cdnInfo.detected,
                     cdnProvider |-> cdnInfo.provider,
                     cdnHop |-> cdnInfo.hopNumber]
    /\ enrichedHops' = WithDistances(enrichedHops)
    /\ tpc' = "done"
    /\ UNCHANGED <<lvars, pvars, platform, attempts, probeHops, cables, cableInfo>>

NextTrace ==
    \/ ResolveDomain
    \/ RunTracert \/ RunMtr \/ RunTracerouteCmd \/ RunTracerouteRetry \/ RunTcptraceroute
    \/ NoHops \/ EnrichHops \/ AnalyzeCableUsage \/ Aggregate

SpecTrace == InitTrace /\ [][NextTrace]_vars

---------------------------------------------------------------------------
(* SpecCable: analyzeCableUsage and calculateDistances on any enriched hop *)
(* list, as traceRoute calls them                                          *)

MaxPath == 3

\* Places a hop can be geolocated to: <<lat, lon, country>>.
NYC == <<40, -74, "United States">>
BOS == <<42, -70, "United States">>
SEA == <<48, -122, "United States">>
LON == <<52, 0, "United Kingdom">>
PAR == <<48, 2, "France">>
MCP == <<0, -52, "Brazil">>

\* An enriched hop: geolocated at a place, or (place "none") a private hop.
GeoHop(pl, rt) ==
    [hop |-> 0, ip |-> PubIp, rtt |-> 20 * 1000000, loss |-> 0,
     timeout |-> FALSE, isPrivate |-> FALSE,
     geo |-> "num", lat |-> pl[1], lon |-> pl[2], country |-> pl[3],
     asnOrg |-> "Unknown", isCdn |-> FALSE, cdnProvider |-> "null",
     routeType |-> rt, cableUsed |-> "null", distanceToNext |-> null,
     lookedUp |-> TRUE, geoPromise |-> "coords"]
PrivateHop == enrichHop([hop |-> 0, ip |-> PrivIp, rtt |-> 1000000, loss |-> 0,
                         timeout |-> FALSE, isPrivate |-> TRUE],
                        "empty", [org |-> "", isCdn |-> FALSE, cdnProvider |-> "null"])
HopInputs ==
    { GeoHop(pl, "land") : pl \in {NYC, BOS, SEA, LON, PAR, MCP} }
        \cup { GeoHop(NYC, "sea"), GeoHop(BOS, "sea"), PrivateHop }

Numbered(hopList) == [i \in DOMAIN hopList |-> [hopList[i] EXCEPT !.hop = i]]

InitCable ==
    /\ fmt = "windows" /\ text = <<>> /\ parsed = <<>> /\ ppc = "idle"
    /\ platform = "linux"
    /\ tpc = "enriched"
    /\ attempts = <<>>
    /\ probeHops = <<>>
    /\ \E n \in 1..MaxPath : \E hs \in [1..n -> HopInputs] : enrichedHops = Numbered(hs)
    /\ cables \in {<<>>, Dataset, << CableSacs >>}
    /\ cableInfo = <<>>
    /\ result = Pending
    /\ LoaderSettled

NextCable == AnalyzeCableUsage \/ Aggregate

SpecCable == InitCable /\ [][NextCable]_vars

---------------------------------------------------------------------------
(* SpecTime: calculateTotalTime on any list of timed hops, the empty list  *)
(* included                                                                *)

\* A hop as a parser and enrichHops leave it, with the round-trip time rt.
TimedHop(rt) ==
    enrichHop([hop |-> 0, ip |-> PubIp, rtt |-> rt, loss |-> 0,
               timeout |-> FALSE, isPrivate |-> FALSE],
              "empty", [org |-> "Unknown", isCdn |-> FALSE, cdnProvider |-> "null"])
\* A hop that never answered: a timeout, or a line without an address.
SilentHop(to) ==
    enrichHop([hop |-> 0, ip |-> NoIp, rtt |-> null, loss |-> 100 * 1000,
               timeout |-> to, isPrivate |-> FALSE],
              "empty", [org |-> "Unknown", isCdn |-> FALSE, cdnProvider |-> "null"])
TimedInputs ==
    { TimedHop(rt) : rt \in {0, Mean(<<1, 2, 3>>), Mean(<<9, 9, 10>>), Mean(<<0, 3>>)} }
        \cup { SilentHop(to) : to \in BOOLEAN }

InitTime ==
    /\ fmt = "windows" /\ text = <<>> /\ parsed = <<>> /\ ppc = "idle"
    /\ platform = "linux"
    /\ tpc = "analyzed"
    /\ attempts = <<>>
    /\ probeHops = <<>>
    /\ \E n \in 0..MaxPath : \E hs \in [1..n -> TimedInputs] : enrichedHops = Numbered(hs)
    /\ cables = Dataset
    /\ cableInfo = <<>>
    /\ result = Pending
    /\ LoaderSettled

NextTime == Aggregate

SpecTime == InitTime /\ [][NextTime]_vars

---------------------------------------------------------------------------
(* SpecLoad: the CableService shared by concurrent traces and a refresh,   *)
(* one action per stretch of code between two awaits                       *)

\* What the cable API can answer with.
Datasets == { Dataset, << CableTat, CableChannel >> }

\* After construction: loadCables has run up to its await, the fetch is in
\* flight.
InitLoad ==
    /\ fmt = "windows" /\ text = <<>> /\ parsed = <<>> /\ ppc = "idle"
    /\ platform = "linux" /\ tpc = "idle" /\ attempts = <<>> /\ probeHops = <<>>
    /\ enrichedHops = <<>> /\ cableInfo = <<>> /\ result = Pending
    /\ cables = <<>>
    /\ isLoading = TRUE /\ loadAttempted = TRUE /\ lastFetch = "null"
    /\ lpc = [c \in Callers |-> IF c = Constructor THEN "fetching" ELSE "idle"]
    /\ seen = [t \in Traces |-> "none"]

\* Where a caller is once its loadCables call returned: a trace resumes
\* analyzeCableUsage after its await, the others are finished.
Returned(c) == IF c \in Traces THEN "loaded" ELSE "done"

\* loadCables called by c, up to its first await or its return.
CallLoadCables(c, cs, fetchedAt) ==
    LET entry == loadCablesEntry(isLoading, fetchedAt, cs)
    IN /\ isLoading' = IF entry = "fetch" THEN TRUE
                       ELSE IF entry = "cached" THEN FALSE
                       ELSE isLoading
       /\ loadAttempted' = (loadAttempted \/ entry = "fetch")
       /\ lpc' = [lpc EXCEPT ![c] = CASE entry = "wait" -> "waiting"
                                      [] entry = "fetch" -> "fetching"
                                      [] OTHER -> Returned(c)]

\* analyzeCableUsage from its line 120 to its next await or to the hop loop.
EnsureLoaded(t) ==
    IF Len(cables) = 0 /\ ~isLoading
    THEN CallLoadCables(t, cables, lastFetch) /\ UNCHANGED <<cables, lastFetch, seen>>
    ELSE /\ seen' = [seen EXCEPT ![t] = IF Len(cables) = 0 THEN "empty" ELSE "full"]
         /\ lpc' = [lpc EXCEPT ![t] = "done"]
         /\ UNCHANGED <<cables, lastFetch, isLoading, loadAttempted>>

\* A trace calls analyzeCableUsage(hops).  loadAttempted is set inside the
\* constructor, so the await of initPromise is never taken.
AnalyzeCalled(t) ==
    /\ lpc[t] = "idle"
    /\ IF ~loadAttempted
       THEN /\ lpc' = [lpc EXCEPT ![t] = "awaitInit"]
            /\ UNCHANGED <<cables, lastFetch, isLoading, loadAttempted, seen>>
       ELSE EnsureLoaded(t)
    /\ UNCHANGED <<pvars, platform, tpc, attempts, probeHops, enrichedHops, cableInfo, result>>

\* A trace resumes after await this.initPromise or await this.loadCables().
TraceResumes(t) ==
    /\ \/ /\ lpc[t] = "awaitInit" /\ lpc[Constructor] = "done"
          /\ EnsureLoaded(t)
       \/ /\ lpc[t] = "loaded"
          /\ seen' = [seen EXCEPT ![t] = IF Len(cables) = 0 THEN "empty" ELSE "full"]
          /\ lpc' = [lpc EXCEPT ![t] = "done"]
          /\ UNCHANGED <<cables, lastFetch, isLoading, loadAttempted>>
    /\ UNCHANGED <<pvars, platform, tpc, attempts, probeHops, enrichedHops, cableInfo, result>>

\* refreshData: the data is cleared, then loadCables is called.
RefreshData ==
    /\ lpc[Refresher] = "idle"
    /\ lastFetch' = "null"
    /\ cables' = <<>>
    /\ CallLoadCables(Refresher, <<>>, "null")
    /\ UNCHANGED <<pvars, platform, tpc, attempts, probeHops, enrichedHops, cableInfo, result, seen>>

\* The Promise.all of a loadCables settles: the data is stored, or the catch
\* keeps what there is; finally isLoading is cleared.
FetchSettles(c) ==
    /\ lpc[c] = "fetching"
    /\ \E ok \in BOOLEAN, features \in Datasets :
         /\ cables' = IF ok THEN features ELSE cables
         /\ lastFetch' = IF ok THEN "set" ELSE lastFetch
    /\ isLoading' = FALSE
    /\ lpc' = [lpc EXCEPT ![c] = Returned(c)]
    /\ UNCHANGED <<pvars, platform, tpc, attempts, probeHops, enrichedHops, cableInfo, result,
                   loadAttempted, seen>>

\* A poll of the while (this.isLoading) loop finds the flag cleared.
PollEnds(c) ==
    /\ lpc[c] = "waiting" /\ ~isLoading
    /\ lpc' = [lpc EXCEPT ![c] = Returned(c)]
    /\ UNCHANGED <<pvars, platform, tpc, attempts, probeHops, enrichedHops, cables, cableInfo,
                   result, isLoading, loadAttempted, lastFetch, seen>>

NextLoad ==
    \/ \E t \in Traces : AnalyzeCalled(t) \/ TraceResumes(t)
    \/ RefreshData
    \/ \E c \in Callers : FetchSettles(c) \/ PollEnds(c)

SpecLoad == InitLoad /\ [][NextLoad]_vars

---------------------------------------------------------------------------
(* Claims about the parsers, under SpecParse *)

\* C3: every hop a parser returns with timeout = true has rtt = null and
\* loss = 100.
C3_TimeoutHasNoRttFullLoss ==
    ppc = "parsed" =>
        \A i \in DOMAIN parsed :
            parsed[i].timeout => parsed[i].rtt = null /\ parsed[i].loss = 100 * 1000

\* A traceroute hop that answered a probe on one line (samples collected)
\* and is a timeout in the parser's output.
C3_Witness ==
    /\ ppc = "parsed" /\ fmt = "traceroute"
    /\ \E i \in DOMAIN parsed :
          /\ parsed[i].timeout
          /\ \E j \in DOMAIN text :
                text[j].num = parsed[i].hop /\ ~text[j].star /\ text[j].ms # <<>>

\* C4: every hop a parser returns has 0 <= loss <= 100.
C4_LossInRange ==
    ppc = "parsed" =>
        \A i \in DOMAIN parsed : parsed[i].loss >= 0 /\ parsed[i].loss <= 100 * 1000

\* C5: a parser's output is in ascending hop order and holds no hop number
\* twice, whatever the order or repetition of the lines.
C5_SortedNoDuplicates ==
    ppc = "parsed" =>
        \A i, j \in DOMAIN parsed : i < j => parsed[i].hop < parsed[j].hop

\* C7: when the text holds a hop line with an address, the hop of that line
\* and of every hop line before it is in the parser's output.
C7_NoInteriorHopDropped ==
    ppc = "parsed" =>
        \A j \in DOMAIN text :
            (text[j].num > 0 /\ text[j].addr.kind = "quad") =>
                \A k \in 1..j :
                    text[k].num > 0 =>
                        \E i \in DOMAIN parsed : parsed[i].hop = text[k].num

---------------------------------------------------------------------------
(* Claims about runTraceroute and traceRoute, under SpecTrace *)

MethodFormat(m) ==
    CASE m = "tracert" -> "windows"
      [] m = "mtr" -> "mtr"
      [] m = "tcptraceroute" -> "tcptraceroute"
      [] OTHER -> "traceroute"

\* C1: when an attempt failed with stdout that holds a parseable hop line
\* and no later attempt succeeded, runTraceroute returns a non-empty list.
C1_FailedAttemptHopsKept ==
    tpc = "probed" =>
        ((\E i \in DOMAIN attempts :
             /\ ~attempts[i].ok
             /\ Parse(MethodFormat(attempts[i].method), attempts[i].stdout) # <<>>
             /\ \A j \in DOMAIN attempts : j > i => ~attempts[j].ok)
         => probeHops # <<>>)

\* C2: traceRoute always resolves: to a success, or to a failure whose error
\* is one of the two the probe stage reports; it never stops short of that.
C2_AlwaysStructuredResult ==
    /\ tpc = "done" =>
          \/ result.success
          \/ result.error \in {"Could not resolve domain",
                               "Traceroute failed - no hops returned"}
    /\ tpc # "done" => ENABLED NextTrace

\* A trace that ends in success although a command failed, the cable fetch
\* failed and an ownership lookup came back unresolved.
C2_Witness ==
    /\ tpc = "done" /\ result.success
    /\ \E i \in DOMAIN attempts : ~attempts[i].ok
    /\ cables = <<>>
    /\ \E i \in DOMAIN enrichedHops :
          enrichedHops[i].lookedUp /\ enrichedHops[i].asnOrg = "Unknown"

\* C6: the hop list handed to enrichHops, and returned, does not end with a
\* timeout hop that has no address.
C6_NoTrailingSilentHop ==
    (tpc \in {"enriched", "analyzed", "done"} /\ enrichedHops # <<>>) =>
        LET last == enrichedHops[Len(enrichedHops)]
        IN ~(last.ip.kind = "none" /\ last.timeout)

---------------------------------------------------------------------------
(* Claims about classification and aggregation, under SpecCable *)

\* C8: total differs from land + sea by at most 1, and the unrounded sums
\* agree exactly: each segment went to exactly one of land and sea.
C8_TotalIsLandPlusSea ==
    (tpc = "done" /\ result.success) =>
        LET d == result.totalDistance - (result.landDistance + result.seaDistance)
            sums == SumsFrom(1, [total |-> 0, land |-> 0, sea |-> 0], enrichedHops)
        IN /\ d >= -1 /\ d <= 1
           /\ sums.total = sums.land + sums.sea
           /\ result.totalDistance = Round(sums.total)

\* A path with land and sea segments whose rounded parts do not add up to
\* the rounded total.
C8_Witness ==
    /\ tpc = "done" /\ result.success
    /\ result.landDistance > 0 /\ result.seaDistance > 0
    /\ result.totalDistance # result.landDistance + result.seaDistance

\* The id of the cable matched for the hop pair (k, k + 1); "" when the pair
\* is skipped or matches none.
PairCableId(k, hopList, cs) ==
    IF NoLat(hopList[k]) \/ NoLat(hopList[k + 1]) THEN ""
    ELSE IF ~isSubmarineCableRoute(hopList[k], hopList[k + 1]) THEN ""
    ELSE CableIdOf(findNearestCable(hopList[k], hopList[k + 1], cs))

\* C9: no two entries of the returned list share an id, and an entry is the
\* one of the first hop pair that matched its cable.
C9_OneEntryPerCable ==
    tpc \in {"analyzed", "done"} =>
        /\ \A i, j \in DOMAIN cableInfo : i # j => cableInfo[i].id # cableInfo[j].id
        /\ \A i \in DOMAIN cableInfo :
              LET k == cableInfo[i].hopRange[1]
              IN /\ cableInfo[i].hopRange = <<k, k + 1>>
                 /\ PairCableId(k, enrichedHops, cables) = cableInfo[i].id
                 /\ \A k2 \in 1..(k - 1) :
                       PairCableId(k2, enrichedHops, cables) # cableInfo[i].id
                 /\ cableInfo[i].from = enrichedHops[k].country
                 /\ cableInfo[i].to = enrichedHops[k + 1].country
                 /\ cableInfo[i].distance =
                        Round(calculateDistance(enrichedHops[k].lat, enrichedHops[k].lon,
                                                enrichedHops[k + 1].lat, enrichedHops[k + 1].lon))

\* Two hop pairs of one trace matched the same cable.
C9_Witness ==
    /\ tpc = "analyzed" /\ cableInfo # <<>>
    /\ \E k1, k2 \in 1..(Len(enrichedHops) - 1) :
          /\ k1 < k2
          /\ PairCableId(k1, enrichedHops, cables) # ""
          /\ PairCableId(k1, enrichedHops, cables) = PairCableId(k2, enrichedHops, cables)

Continent(country) ==
    CASE country = "United States" -> "NA"
      [] country \in {"United Kingdom", "France"} -> "EU"
      [] country = "Brazil" -> "SA"
      [] OTHER -> ""

\* C10: for adjacent geolocated hops on different continents with a cable
\* within the threshold, the list holds exactly one entry for the pair and
\* the leading hop has routeType "sea" and cableUsed the cable's id.
C10_SeaWrittenBack ==
    (tpc \in {"analyzed", "done"} /\ Len(cables) > 0) =>
        \A k \in 1..(Len(enrichedHops) - 1) :
            LET hop1 == enrichedHops[k]
                hop2 == enrichedHops[k + 1]
            IN (/\ ~NoLat(hop1) /\ ~NoLat(hop2)
                /\ Continent(hop1.country) # Continent(hop2.country)
                /\ findNearestCable(hop1, hop2, cables) # NoCable)
               => /\ Cardinality({i \in DOMAIN cableInfo :
                                     cableInfo[i].hopRange = <<k, k + 1>>}) = 1
                  /\ hop1.routeType = "sea"
                  /\ hop1.cableUsed = CableIdOf(findNearestCable(hop1, hop2, cables))

\* The hop pair (k, k + 1) reaches findNearestCable.
Searched(k, hopList) ==
    /\ ~NoLat(hopList[k]) /\ ~NoLat(hopList[k + 1])
    /\ isSubmarineCableRoute(hopList[k], hopList[k + 1])

\* C11: a hop pair led by a hop with routeType "land", as enrichHops leaves
\* every hop, that is in one country or under 500 km long is never searched
\* for a cable and never yields an entry, whatever cables are loaded.
C11_NearOrDomesticPairIsLand ==
    tpc \in {"analyzed", "done"} =>
        \A k \in 1..(Len(enrichedHops) - 1) :
            LET hop1 == enrichedHops[k]
                hop2 == enrichedHops[k + 1]
            IN (/\ hop1.routeType = "land"
                /\ \/ hop1.country = hop2.country
                   \/ NoLat(hop1) \/ NoLat(hop2)
                   \/ calculateDistance(hop1.lat, hop1.lon, hop2.lat, hop2.lon) < 500 * 2)
               => /\ ~Searched(k, enrichedHops)
                  /\ \A i \in DOMAIN cableInfo : cableInfo[i].hopRange # <<k, k + 1>>

\* A trace analysed with cables loaded that holds a long pair inside one
\* country next to a pair that did match a cable.
C11_Witness ==
    /\ tpc = "analyzed" /\ Len(cables) > 0 /\ cableInfo # <<>>
    /\ \E k \in 1..(Len(enrichedHops) - 1) :
          /\ enrichedHops[k].routeType = "land"
          /\ ~NoLat(enrichedHops[k]) /\ ~NoLat(enrichedHops[k + 1])
          /\ enrichedHops[k].country = enrichedHops[k + 1].country
          /\ calculateDistance(enrichedHops[k].lat, enrichedHops[k].lon,
                               enrichedHops[k + 1].lat, enrichedHops[k + 1].lon) > 800 * 2

---------------------------------------------------------------------------
(* Claims about the cable data loader, under SpecLoad *)

\* C12: at most one caller of loadCables has its fetch in flight.
C12_OneFetchInFlight ==
    Cardinality({c \in Callers : lpc[c] = "fetching"}) <= 1

\* refreshData called loadCables while a fetch was pending, and polls.
C12_Witness ==
    /\ lpc[Refresher] = "waiting"
    /\ \E c \in Callers : lpc[c] = "fetching"

\* C13: a trace does not finish analyzeCableUsage while the constructor's
\* load is still in flight.
C13_TraceWaitsForFirstLoad ==
    \A t \in Traces : lpc[t] = "done" => lpc[Constructor] # "fetching"

\* C14: once cable data is there, no step leaves this.cables without data.
C14_DatasetNeverEmptied ==
    [][Len(cables) > 0 => Len(cables') > 0]_vars

---------------------------------------------------------------------------
(* Claims about enrichment, under SpecTrace *)

Sentinel(h) == h.timeout \/ h.ip.kind = "none" \/ h.isPrivate

\* C15: a hop that is a timeout, has no address or has a private address
\* leaves enrichHops without coordinates, with isCdn false and cdnProvider
\* null and with no lookup issued; it is not the hop detectCDN reports and
\* not an end of a cable entry.
C15_SentinelHopStaysPlain ==
    tpc \in {"enriched", "analyzed", "done"} =>
        \A i \in DOMAIN enrichedHops :
            LET h == enrichedHops[i]
            IN Sentinel(h) =>
                 /\ h.geo = "null" /\ ~h.isCdn /\ h.cdnProvider = "null"
                 /\ ~h.lookedUp
                 /\ (tpc = "done" /\ result.hasCdn) => result.cdnHop # h.hop
                 /\ \A j \in DOMAIN cableInfo :
                       /\ cableInfo[j].hopRange[1] # h.hop
                       /\ cableInfo[j].hopRange[2] # h.hop

\* A finished trace through a private gateway in which a later hop was
\* reported as the CDN.
C15_Witness ==
    /\ tpc = "done" /\ result.success /\ result.hasCdn
    /\ \E i \in DOMAIN enrichedHops :
          enrichedHops[i].isPrivate /\ ~enrichedHops[i].timeout

\* C16: enrichHops returns one hop per input hop, with the same ordinals and
\* addresses in the same order, and what hop i becomes depends on its own
\* lookups only, whichever of them fail.
C16_EnrichKeepsEveryHop ==
    tpc \in {"enriched", "analyzed", "done"} =>
        /\ Len(enrichedHops) = Len(probeHops)
        /\ \A i \in DOMAIN probeHops :
              /\ i \in DOMAIN enrichedHops
              /\ enrichedHops[i].hop = probeHops[i].hop
              /\ enrichedHops[i].ip = probeHops[i].ip
              /\ tpc = "enriched" =>
                    \E geo \in GeoResults, asn \in AsnResults :
                        enrichedHops[i] = enrichHop(probeHops[i], geo, asn)

\* The ownership lookup failed for the first hop and answered for the second.
C16_Witness ==
    /\ tpc = "enriched" /\ Len(enrichedHops) = 2
    /\ enrichedHops[1].lookedUp /\ enrichedHops[1].asnOrg = "Unknown"
    /\ enrichedHops[1].geoPromise = "empty"
    /\ enrichedHops[2].lookedUp /\ enrichedHops[2].asnOrg # "Unknown"

\* C17: a looked-up hop whose geolocation lookup resolves to coordinates
\* carries those coordinates.
C17_ResolvedGeoIsCarried ==
    tpc \in {"enriched", "analyzed", "done"} =>
        \A i \in DOMAIN enrichedHops :
            (enrichedHops[i].lookedUp /\ enrichedHops[i].geoPromise = "coords")
                => enrichedHops[i].geo = "num"

\* Every command run so far failed and none left a hop line on stdout.
AllFailedNoHops ==
    /\ attempts # <<>>
    /\ \A i \in DOMAIN attempts :
          /\ ~attempts[i].ok
          /\ Parse(MethodFormat(attempts[i].method), attempts[i].stdout) = <<>>

\* C18: when every command failed and no hop was recovered, runTraceroute
\* returns the empty list and traceRoute returns 'Traceroute failed - no hops
\* returned' with no enrichment, cable analysis or aggregation run.
C18_AllFailedIsNoHops ==
    AllFailedNoHops =>
        /\ tpc \notin {"enriched", "analyzed"}
        /\ tpc = "probed" => (probeHops = <<>> /\ ENABLED NoHops)
        /\ tpc = "done" =>
              /\ result = Failure("Traceroute failed - no hops returned")
              /\ enrichedHops = <<>> /\ cableInfo = <<>>

\* mtr, traceroute and tcptraceroute all failed, one of them after printing
\* text that holds no hop line.
C18_Witness ==
    /\ tpc = "done" /\ AllFailedNoHops /\ Len(attempts) = 3
    /\ \E i \in DOMAIN attempts : attempts[i].stdout # <<>>

---------------------------------------------------------------------------
(* Claims about single hops of the parsers, under SpecParse *)

\* Line j is the only line of its hop number, and no line of further
\* samples follows it before the next hop line.
OnlyLineOfHop(j) ==
    /\ text[j].num > 0
    /\ \A q \in DOMAIN text : q # j => text[q].num # text[j].num
    /\ \A q \in (j + 1)..Len(text) :
          (\A r \in (j + 1)..q : text[r].num = 0) => text[q].ms = <<>>

\* The samples of a line as Windows durations: "<1 ms" counts as 1.
WinSamples(ln) == [q \in DOMAIN ln.ms |-> IF ln.ms[q] = 0 THEN 1 ELSE ln.ms[q]]

\* C19: in Windows text, a hop whose line shows an address and k samples,
\* 1 <= k <= 3, gives exactly one hop: rtt their mean, loss (3 - k)/3 x 100,
\* timeout false, isPrivate true exactly for a private address.
C19_WindowsHopMeanAndLoss ==
    (ppc = "parsed" /\ fmt = "windows") =>
        \A j \in DOMAIN text :
            LET ln == text[j]
                k == Len(ln.ms)
            IN (OnlyLineOfHop(j) /\ ln.addr.kind = "quad" /\ k \in 1..3) =>
                 /\ Cardinality({i \in DOMAIN parsed : parsed[i].hop = ln.num}) = 1
                 /\ \A i \in DOMAIN parsed :
                       parsed[i].hop = ln.num =>
                          /\ parsed[i].ip = ln.addr
                          /\ parsed[i].rtt = (SumSeq(WinSamples(ln)) * 1000000) \div k
                          /\ parsed[i].loss = ((3 - k) * 100 * 1000) \div 3
                          /\ ~parsed[i].timeout
                          /\ parsed[i].isPrivate = isPrivateIP(ln.addr)

\* A line that holds asterisks or "Request timed out" and nothing else.
SilentLine(ln) == (ln.star \/ ln.rto) /\ ln.addr.kind = "none" /\ ln.ms = <<>>

\* C20: a hop number all of whose lines are silent is in the parser's output
\* exactly once, with ip null, timeout true, rtt null and loss 100.
C20_SilentHopIsKept ==
    ppc = "parsed" =>
        \A j \in DOMAIN text :
            (/\ text[j].num > 0
             /\ \A q \in DOMAIN text : text[q].num = text[j].num => SilentLine(text[q]))
            => /\ Cardinality({i \in DOMAIN parsed : parsed[i].hop = text[j].num}) = 1
               /\ \A i \in DOMAIN parsed :
                     parsed[i].hop = text[j].num =>
                        /\ parsed[i].ip = NoIp /\ parsed[i].timeout
                        /\ parsed[i].rtt = null /\ parsed[i].loss = 100 * 1000

\* C25: in Windows and traceroute text an asterisk costs only its own probe: a
\* hop whose line shows an address, j samples (j = 1 or 2) and asterisks is
\* in the output with that address, rtt the mean of the j samples, loss
\* (3 - j)/3 x 100 and timeout false.
C25_AsteriskLosesOneProbe ==
    (ppc = "parsed" /\ fmt \in {"windows", "traceroute"}) =>
        \A j \in DOMAIN text :
            LET ln == text[j]
                samples == IF fmt = "windows" THEN WinSamples(ln) ELSE ln.ms
            IN (OnlyLineOfHop(j) /\ ln.star /\ ln.addr.kind = "quad" /\ Len(ln.ms) \in 1..2) =>
                 \E i \in DOMAIN parsed :
                    /\ parsed[i].hop = ln.num
                    /\ parsed[i].ip = ln.addr
                    /\ parsed[i].rtt = Mean(samples)
                    /\ parsed[i].loss = LossOf(Len(samples))
                    /\ ~parsed[i].timeout

\* C26: parseMtrOutput gives a hop only for report lines whose address column
\* is, as a whole, a dotted quad: every hop's ip is one, and a line whose
\* address column is a host name (one that contains a dotted quad too) or a
\* placeholder gives no hop.
C26_MtrKeepsOnlyNumericAddresses ==
    (ppc = "parsed" /\ fmt = "mtr") =>
        /\ \A i \in DOMAIN parsed : parsed[i].ip.kind = "quad"
        /\ Len(parsed) = Cardinality({j \in DOMAIN text :
                                        text[j].num > 0 /\ text[j].addr.kind = "quad"})

\* C27: in tcptraceroute text a hop line with an address and k durations
\* gives loss (3 - k)/3 x 100; with k from 1 to 3 the hop is no timeout and
\* its rtt is their mean; with k = 0 it is a timeout with rtt null, loss 100.
C27_TcpHopBySampleCount ==
    (ppc = "parsed" /\ fmt = "tcptraceroute") =>
        \A j \in DOMAIN text :
            LET ln == text[j]
                k == Len(ln.ms)
            IN (OnlyLineOfHop(j) /\ ~ln.star /\ ln.addr.kind = "quad" /\ k \in 0..3) =>
                 \E i \in DOMAIN parsed :
                    /\ parsed[i].hop = ln.num
                    /\ parsed[i].ip = ln.addr
                    /\ parsed[i].loss = LossOf(k)
                    /\ IF k = 0
                       THEN parsed[i].timeout /\ parsed[i].rtt = null
                       ELSE ~parsed[i].timeout /\ parsed[i].rtt = Mean(ln.ms)

---------------------------------------------------------------------------
(* Claims about detectCDN and calculateTotalTime *)

Flagged(h) == h.isCdn /\ h.cdnProvider # "null"
KeywordOf(h) ==
    IF OrgIncludes(h.asnOrg, "cloudflare") THEN "Cloudflare"
    ELSE IF OrgIncludes(h.asnOrg, "akamai") THEN "Akamai"
    ELSE IF OrgIncludes(h.asnOrg, "fastly") THEN "Fastly"
    ELSE ""

\* C21: with a flagged hop in the path the first flagged hop and its
\* provider are reported, whatever the organisation names of other hops;
\* with none, the first hop whose organisation name holds a keyword; with
\* neither, detected = false and provider = null.
C21_FlaggedHopWins ==
    (tpc = "done" /\ result.success) =>
        LET flagged == {i \in DOMAIN enrichedHops : Flagged(enrichedHops[i])}
            named == {i \in DOMAIN enrichedHops : KeywordOf(enrichedHops[i]) # ""}
            first(S) == CHOOSE i \in S : \A j \in S : i <= j
        IN IF flagged # {}
           THEN /\ result.hasCdn
                /\ result.cdnHop = enrichedHops[first(flagged)].hop
                /\ result.cdnProvider = enrichedHops[first(flagged)].cdnProvider
           ELSE IF named # {}
           THEN /\ result.hasCdn
                /\ result.cdnHop = enrichedHops[first(named)].hop
                /\ result.cdnProvider = KeywordOf(enrichedHops[first(named)])
           ELSE ~result.hasCdn /\ result.cdnProvider = "null"

\* C22: the total time is, to the nearest thousandth of a millisecond, the
\* round-trip time of the last hop that is not a timeout and has rtt > 0 (the
\* whole of it, not half); it is 0 when no hop qualifies, as for the empty
\* list and for a list whose measured hops all have rtt = 0.
Measured(h) == h.rtt # null /\ ~h.timeout /\ h.rtt > 0
LastMeasured == CHOOSE i \in DOMAIN enrichedHops :
                    /\ Measured(enrichedHops[i])
                    /\ \A j \in DOMAIN enrichedHops : Measured(enrichedHops[j]) => j <= i
Rank(m) == CASE m = "mtr" -> 1
             [] m = "traceroute" -> 2
             [] m = "traceroute retry" -> 3
             [] m = "tcptraceroute" -> 4
             [] OTHER -> 0
C23_MethodsInPriorityOrder ==
    IF platform = "win32"
    THEN Len(attempts) <= 1 /\ \A i \in DOMAIN attempts : attempts[i].method = "tracert"
    ELSE /\ \A i \in DOMAIN attempts : Rank(attempts[i].method) > 0
         /\ attempts # <<>> => attempts[1].method = "mtr"
         /\ \A i \in DOMAIN attempts : i > 1 =>
               /\ Rank(attempts[i - 1].method) < Rank(attempts[i].method)
               /\ attempts[i].method = "traceroute" =>
                     attempts[i - 1].method = "mtr" /\ ~attempts[i - 1].ok
               /\ attempts[i].method = "traceroute retry" =>
                     attempts[i - 1].method = "traceroute" /\ attempts[i - 1].ok
               /\ attempts[i].method = "tcptraceroute" =>
                     /\ attempts[i - 1].method \in {"traceroute", "traceroute retry"}
                     /\ ~attempts[i - 1].ok
C23_Witness ==
    /\ platform # "win32"
    /\ Len(attempts) = 4
    /\ attempts[4].method = "tcptraceroute"

\* C24: when mtr exits successfully its parsed output is what runTraceroute
\* returns and no other method is started, even if no line of the report
\* gave a hop; the trace then ends with 'no hops returned'.
C24_MtrSuccessEndsTheChain ==
    (attempts # <<>> /\ attempts[1].method = "mtr" /\ attempts[1].ok) =>
        /\ Len(attempts) = 1
        /\ probeHops = parseMtrOutput(attempts[1].stdout)
        /\ tpc \in {"probed", "enriched", "analyzed", "done"}
        /\ (tpc = "done" /\ parseMtrOutput(attempts[1].stdout) = <<>>) =>
              result = Failure("Traceroute failed - no hops returned")
C24_Witness ==
    /\ tpc = "done"
    /\ Len(attempts) = 1 /\ attempts[1].method = "mtr" /\ attempts[1].ok
    /\ attempts[1].stdout # <<>>
    /\ result = Failure("Traceroute failed - no hops returned")

---------------------------------------------------------------------------
(* Claims about ocean crossings without a cable, the point-to-segment      *)
(* distance and the per-pair distances, under SpecCable                    *)

\* C28: a geolocated hop pair that passes the ocean-crossing test while no
\* loaded cable is within the threshold gives no entry, yet its leading hop
\* has routeType "sea" and its length is part of seaDistance.
C28_CrossingWithoutCableIsSea ==
    (tpc = "done" /\ result.success /\ Len(cables) > 0) =>
        \A k \in 1..(Len(enrichedHops) - 1) :
            LET hop1 == enrichedHops[k]
                hop2 == enrichedHops[k + 1]
            IN (Searched(k, enrichedHops) /\ findNearestCable(hop1, hop2, cables) = NoCable)
               => /\ \A i \in DOMAIN cableInfo : cableInfo[i].hopRange # <<k, k + 1>>
                  /\ hop1.routeType = "sea"
                  /\ 2 * result.seaDistance >=
                        haversineDistance(hop1.lat, hop1.lon, hop2.lat, hop2.lon)

\* Where the perpendicular foot of P falls on the line through A and B, in
\* the plane of the coordinates the dot product of the source is taken in.
FootBeforeA(pLat, pLon, aLat, aLon, bLat, bLon) ==
    (pLat - aLat) * (bLat - aLat) + (pLon - aLon) * (bLon - aLon) < 0
FootBeyondB(pLat, pLon, aLat, aLon, bLat, bLon) ==
    (pLat - aLat) * (bLat - aLat) + (pLon - aLon) * (bLon - aLon)
        > (bLat - aLat) * (bLat - aLat) + (bLon - aLon) * (bLon - aLon)

\* The points calculateRouteProximity measures from for the hop pair
\* (k, k + 1): the midpoint and the two ends.
ProbePoints(k) ==
    LET hop1 == enrichedHops[k]
        hop2 == enrichedHops[k + 1]
    IN { <<(hop1.lat + hop2.lat) \div 2, (hop1.lon + hop2.lon) \div 2>>,
         <<hop1.lat, hop1.lon>>, <<hop2.lat, hop2.lon>> }

\* C29: for every point and cable segment the search measures,
\* pointToSegmentDistance is dist(P, A) when the foot is before A, dist(P, B)
\* when it is beyond B, the lesser of the two when A and B are under 1 km
\* apart, and so never less than the distance from P to the nearer end when
\* the foot is off the segment.
C29_SegmentDistanceIsClamped ==
    (tpc \in {"analyzed", "done"} /\ Len(cables) > 0) =>
        \A k \in 1..(Len(enrichedHops) - 1) :
            Searched(k, enrichedHops) =>
                \A c \in DOMAIN cables :
                    \A i \in 1..(Len(cables[c].coordinates) - 1) :
                        \A p \in ProbePoints(k) :
                            LET a == cables[c].coordinates[i]
                                b == cables[c].coordinates[i + 1]
                                d == pointToSegmentDistance(p[1], p[2], a[2], a[1], b[2], b[1])
                                distPA == calculateDistance(p[1], p[2], a[2], a[1])
                                distPB == calculateDistance(p[1], p[2], b[2], b[1])
                            IN /\ calculateDistance(a[2], a[1], b[2], b[1]) < 1 * 2
                                     => d = MinOf(distPA, distPB)
                               /\ FootBeforeA(p[1], p[2], a[2], a[1], b[2], b[1]) => d = distPA
                               /\ FootBeyondB(p[1], p[2], a[2], a[1], b[2], b[1]) => d = distPB
                               /\ (\/ FootBeforeA(p[1], p[2], a[2], a[1], b[2], b[1])
                                   \/ FootBeyondB(p[1], p[2], a[2], a[1], b[2], b[1]))
                                     => d >= MinOf(distPA, distPB)

\* Both hops of the pair (k, k + 1) have coordinates, 0 included.
Geolocated(k) == enrichedHops[k].geo = "num" /\ enrichedHops[k + 1].geo = "num"
PairDistance(k) ==
    haversineDistance(enrichedHops[k].lat, enrichedHops[k].lon,
                      enrichedHops[k + 1].lat, enrichedHops[k + 1].lon)

\* C30: every adjacent pair of hops that both have coordinates, a latitude
\* of 0 included, has its distance in totalDistance and, rounded, in the
\* leading hop's distanceToNext; the last hop's distanceToNext is 0.
C30_EveryGeolocatedPairMeasured ==
    (tpc = "done" /\ result.success) =>
        LET n == Len(enrichedHops)
            sum[k \in 0..(n - 1)] ==
                IF k = 0 THEN 0
                ELSE sum[k - 1] + (IF Geolocated(k) THEN PairDistance(k) ELSE 0)
        IN /\ \A k \in 1..(n - 1) :
                 Geolocated(k) => enrichedHops[k].distanceToNext = Round(PairDistance(k))
           /\ n > 0 => result.totalDistance = Round(sum[n - 1])
           /\ n > 0 => enrichedHops[n].distanceToNext = 0

=============================================================================
